---- MODULE Spec2Model ----
(***************************************************************************)
(* Model of the MCP proxy shim, src/mcp-proxy-server/src/main.py: the      *)
(* module-level script that reads MCP_PROXY_URL / MCP_COMMAND / MCP_ARGS   *)
(* from the environment, validates them and builds the backend config      *)
(* handed to FastMCP.as_proxy, or ends the process.                        *)
(*                                                                         *)
(* A string is a sequence of characters, a character a one-element TLA+    *)
(* string; the three control characters have the names NUL, LF and CR.     *)
(* Text written to stderr is a sequence of text atoms: a literal of the    *)
(* program, one character, or the escape sequence repr() writes for one    *)
(* character.  An optional value (None or a value) is None == <<>> or      *)
(* Some(v) == <<v>>.                                                       *)
(***************************************************************************)
EXTENDS Integers, Sequences, FiniteSets, TLC

VARIABLES
    env,        \* os.environ: the ambient environment, fixed at start
    pc,         \* position of the script
    proxy_url,  \* main.py:21
    cmd,        \* main.py:34
    raw_args,   \* main.py:37
    args,       \* main.py:38, filled token by token by list(lex)
    lex,        \* the shlex instance inside shlex.split (main.py:38)
    idx,        \* number of elements the loop of main.py:44 has passed
    config,     \* main.py:25 / main.py:48
    app,        \* main.py:59: the config the proxy runtime was built from
    stderr,     \* text written to sys.stderr
    exit_code,  \* exit status once the process has ended
    reads,      \* names of the environment entries read so far
    safe_ret    \* argument and result of the latest call of safe()

vars ==
    <<env, pc, proxy_url, cmd, raw_args, args, lex, idx, config, app,
      stderr, exit_code, reads, safe_ret>>

-----------------------------------------------------------------------------
(* Program constants *)

MAX_ARGS ==
    64

MAX_ARG_LEN ==
    512

(* Bounds of the checked inputs *)

MaxWords ==
    2

Slack ==
    1

-----------------------------------------------------------------------------
(* Values *)

None ==
    <<>>

Some(v) ==
    <<v>>

NUL ==
    "<NUL>"

LF ==
    "<LF>"

CR ==
    "<CR>"

TAB ==
    "<TAB>"

Rep(c, n) ==
    [i \in 1..n |-> c]

\* Truthy with the test "is not None" in place of truthiness.
Truthy_NotNone(o) ==
    o # None

\* Python truthiness of an optional string: None and "" are falsy.
Truthy(o) ==
    o # None /\ o[1] # <<>>

Contains(s, c) ==
    \E i \in 1..Len(s) : s[i] = c

-----------------------------------------------------------------------------
(* safe(), main.py:12-19 *)

\* safe with the length bound exclusive.
safe_Exclusive(arg) ==
    /\ 0 < Len(arg)
    /\ Len(arg) < MAX_ARG_LEN
    /\ ~Contains(arg, NUL)
    /\ ~Contains(arg, LF)
    /\ ~Contains(arg, CR)

safe(arg) ==
    /\ 0 < Len(arg)
    /\ Len(arg) <= MAX_ARG_LEN
    /\ ~Contains(arg, NUL)
    /\ ~Contains(arg, LF)
    /\ ~Contains(arg, CR)

-----------------------------------------------------------------------------
(* validators.url(), called at main.py:23.  The library is not part of the *)
(* repository; the model keeps what decides the branch: the value must be  *)
(* <scheme>://<host>[/<path>] with a scheme the library accepts, a         *)
(* non-empty host made of host characters, and no whitespace in the path.  *)
(* UrlSchemes lists the schemes every release of the library accepts       *)
(* (recent releases accept further ones, such as ftps, sftp and ssh).      *)

UrlSchemes ==
    { <<"h", "t", "t", "p">>, <<"h", "t", "t", "p", "s">>, <<"f", "t", "p">> }

HostChars ==
    { "a", "b", "c", "e", "f", "h", "i", "m", "o", "p", "s", "t", "x", "y",
      "z", ".", "-" }

Whitespace ==
    { " ", TAB, CR, LF }

SchemeEnds(u) ==
    { i \in 1..(Len(u) - 2) : u[i] = ":" /\ u[i + 1] = "/" /\ u[i + 2] = "/" }

\* u is <scheme>://<host>[/<path>] with its scheme among schemes.
WellFormedUrl(u, schemes) ==
    /\ SchemeEnds(u) # {}
    /\ LET sep    == CHOOSE i \in SchemeEnds(u) : \A j \in SchemeEnds(u) : i <= j
           scheme == SubSeq(u, 1, sep - 1)
           rest   == SubSeq(u, sep + 3, Len(u))
           slashes == { i \in 1..Len(rest) : rest[i] = "/" }
           hostEnd == IF slashes = {} THEN Len(rest)
                      ELSE (CHOOSE i \in slashes : \A j \in slashes : i <= j) - 1
           host   == SubSeq(rest, 1, hostEnd)
           path   == SubSeq(rest, hostEnd + 1, Len(rest))
       IN  /\ scheme \in schemes
           /\ host # <<>>
           /\ \A i \in 1..Len(host) : host[i] \in HostChars
           /\ host[1] # "." /\ host[Len(host)] # "."
           /\ \A i \in 1..Len(path) : path[i] \notin Whitespace

validators_url(u) ==
    WellFormedUrl(u, UrlSchemes)

-----------------------------------------------------------------------------
(* Text written to stderr *)

\* What repr() writes for one character of a string quoted with q.
Esc(c, q) ==
    CASE c = "\\"             -> "\\\\"
      [] c = LF               -> "\\n"
      [] c = CR               -> "\\r"
      [] c = TAB              -> "\\t"
      [] c = NUL              -> "\\x00"
      [] c = "'" /\ q = "'"   -> "\\'"
      [] OTHER                -> c

\* repr(a) of the f-string at main.py:46 ({a!r}).
Repr(s) ==
    LET q == IF Contains(s, "'") /\ ~Contains(s, "\"") THEN "\"" ELSE "'"
    IN  <<q>> \o [i \in 1..Len(s) |-> Esc(s[i], q)] \o <<q>>

\* print(f"[shim] {msg}", file=sys.stderr), main.py:9.
ShimLine(msg) ==
    <<"[shim] ">> \o msg \o <<LF>>

MsgInvalidUrl ==
    <<"Invalid MCP_PROXY_URL: must be http(s) and a well-formed URL">>

MsgMissing ==
    <<"Must set either MCP_PROXY_URL or MCP_COMMAND environment variable">>

MsgUnsafeCommand ==
    <<"Unsafe command">>

MsgTooManyArgs ==
    <<"Too many args">>

MsgUnsafeArg(a) ==
    <<"Unsafe arg: ">> \o Repr(a)

\* What the interpreter writes for the ValueError that shlex.split raises
\* at main.py:38 and nothing catches: a traceback of several lines.
Traceback(msg) ==
    << "Traceback (most recent call last):", LF,
       "  File \"main.py\", line 38, in <module>", LF,
       "ValueError: ", msg, LF >>

NumLines(text) ==
    Cardinality({ i \in 1..Len(text) : text[i] = LF })

-----------------------------------------------------------------------------
(* shlex.split(raw_args), called at main.py:38: a shlex instance in posix  *)
(* mode with whitespace_split set and no commenters, drained by list().    *)
(* lex holds the instance (pos: characters consumed, state, token) and the *)
(* locals of the running read_token call (escapedstate, quoted).           *)

quotes ==
    { "'", "\"" }

escape ==
    { "\\" }

escapedquotes ==
    { "\"" }

LexInit ==
    [pos |-> 0, state |-> " ", escapedstate |-> " ", token |-> <<>>,
     quoted |-> FALSE]

\* The outcome of one pass through the loop of read_token:
\*   lex: the instance afterwards; emit: the token read_token returns, if
\*   the pass left the loop with one; done: the input is exhausted;
\*   error: the message of the ValueError raised, if any.
LexOutcome(l, emit, done, error) ==
    [lex |-> l, emit |-> emit, done |-> done, error |-> error]

\* Stay in the loop.
LexContinue(l) ==
    LexOutcome(l, None, FALSE, None)

\* Leave the loop: read_token returns the token unless it is empty and
\* unquoted, and the next call starts with fresh locals.
LexBreak(l, done) ==
    LexOutcome([l EXCEPT !.token = <<>>, !.quoted = FALSE, !.escapedstate = " "],
               IF l.token # <<>> \/ l.quoted THEN Some(l.token) ELSE None,
               done, None)

LexRaise(l, msg) ==
    LexOutcome(l, None, TRUE, Some(msg))

ReadChar(l0, raw) ==
    LET eof == l0.pos >= Len(raw)
        c   == IF eof THEN "" ELSE raw[l0.pos + 1]
        l   == IF eof THEN l0 ELSE [l0 EXCEPT !.pos = l0.pos + 1]
    IN  CASE l.state = " " ->
               IF eof THEN LexBreak([l EXCEPT !.state = "None"], TRUE)
               ELSE IF c \in Whitespace THEN
                   IF l.token # <<>> \/ l.quoted THEN LexBreak(l, FALSE)
                   ELSE LexContinue(l)
               ELSE IF c \in escape THEN
                   LexContinue([l EXCEPT !.escapedstate = "a", !.state = c])
               ELSE IF c \in quotes THEN
                   LexContinue([l EXCEPT !.state = c])
               ELSE
                   LexContinue([l EXCEPT !.token = <<c>>, !.state = "a"])
          [] l.state \in quotes ->
               LET lq == [l EXCEPT !.quoted = TRUE]
               IN  IF eof THEN LexRaise(lq, "No closing quotation")
                   ELSE IF c = l.state THEN
                       LexContinue([lq EXCEPT !.state = "a"])
                   ELSE IF c \in escape /\ l.state \in escapedquotes THEN
                       LexContinue([lq EXCEPT !.escapedstate = l.state,
                                              !.state = c])
                   ELSE
                       LexContinue([lq EXCEPT !.token = Append(l.token, c)])
          [] l.state \in escape ->
               IF eof THEN LexRaise(l, "No escaped character")
               ELSE LET kept == IF /\ l.escapedstate \in quotes
                                   /\ c # l.state
                                   /\ c # l.escapedstate
                                THEN Append(l.token, l.state)
                                ELSE l.token
                    IN  LexContinue([l EXCEPT !.token = Append(kept, c),
                                              !.state = l.escapedstate])
          [] l.state = "a" ->
               IF eof THEN LexBreak([l EXCEPT !.state = "None"], TRUE)
               ELSE IF c \in Whitespace THEN
                   IF l.token # <<>> \/ l.quoted
                   THEN LexBreak([l EXCEPT !.state = " "], FALSE)
                   ELSE LexContinue([l EXCEPT !.state = " "])
               ELSE IF c \in quotes THEN
                   LexContinue([l EXCEPT !.state = c])
               ELSE IF c \in escape THEN
                   LexContinue([l EXCEPT !.escapedstate = "a", !.state = c])
               ELSE
                   LexContinue([l EXCEPT !.token = Append(l.token, c)])

-----------------------------------------------------------------------------
(* The environments the script is started in.  Values are strings without  *)
(* NUL, which an environment entry cannot hold.                            *)

LenRange ==
    (MAX_ARG_LEN - Slack)..(MAX_ARG_LEN + Slack)

CountRange ==
    (MAX_ARGS - Slack)..(MAX_ARGS + Slack)

Sep ==
    <<":", "/", "/">>

HostPath ==
    <<"x", ".", "i", "o", "/", "m">>

ProxyUrlInputs ==
    { None,
      Some(<<>>),
      Some(<<"h", "t", "t", "p">> \o Sep \o HostPath),
      Some(<<"h", "t", "t", "p", "s">> \o Sep \o HostPath),
      Some(<<"f", "t", "p">> \o Sep \o HostPath),
      Some(<<"x", "y", "z">> \o Sep \o HostPath),
      Some(<<"h", "t", "t", "p", "s">> \o Sep),
      Some(HostPath),
      Some(<<"n", "o", "t", " ", "a", " ", "u", "r", "l">>) }

CommandInputs ==
    { None,
      Some(<<>>),
      Some(<<"x">>),
      Some(<<"p", "y">>),
      Some(<<"p", "y", LF, "r", "m">>),
      Some(<<CR>>) }
    \cup { Some(Rep("c", n)) : n \in LenRange }

\* Words as they are typed in MCP_ARGS: a, -m, 'a b', '', "a<LF>b", a\ b.
Words ==
    { <<"a">>,
      <<"-", "m">>,
      <<"'", "a", " ", "b", "'">>,
      <<"'", "'">>,
      <<"\"", "a", LF, "b", "\"">>,
      <<"a", "\\", " ", "b">> }

RECURSIVE JoinWords(_)
JoinWords(ws) ==
    IF Len(ws) = 0 THEN <<>>
    ELSE IF Len(ws) = 1 THEN ws[1]
    ELSE ws[1] \o <<" ">> \o JoinWords(Tail(ws))

\* n times the word a, separated by single spaces.
Repeated(n) ==
    [i \in 1..(2 * n - 1) |-> IF i % 2 = 1 THEN "a" ELSE " "]

ArgsInputs ==
    { None, Some(<<>>) }
    \cup { Some(JoinWords(ws)) :
             ws \in UNION { [1..n -> Words] : n \in 1..MaxWords } }
    \cup { Some(<<"'", "a">>), Some(<<"a", " ", "\"", "b">>),
           Some(<<"a", "\\">>), Some(<<"\"", "a", "\\">>) }
    \cup { Some(<<" ", "a", LF, TAB, "b", " ">>), Some(<<"\"", "a", "\\", "n", "\"">>),
           Some(<<"\"", "a", "\\", "\"", "b", "\"">>) }
    \cup { Some(Repeated(n)) : n \in CountRange }
    \cup { Some(<<"'", "'", " ">> \o Repeated(n - 1)) : n \in CountRange }
    \cup { Some(Rep("a", n)) : n \in LenRange }
    \cup { Some(<<"-", "m", " ">> \o Rep("a", n) \o <<" ", "'", CR, "'">>) :
             n \in LenRange }

MkEnv(p, c, a) ==
    [k \in {"PATH"} \cup (IF p = None THEN {} ELSE {"MCP_PROXY_URL"})
                    \cup (IF c = None THEN {} ELSE {"MCP_COMMAND"})
                    \cup (IF a = None THEN {} ELSE {"MCP_ARGS"})
       |-> CASE k = "MCP_PROXY_URL" -> p[1]
             [] k = "MCP_COMMAND"   -> c[1]
             [] k = "MCP_ARGS"      -> a[1]
             [] OTHER               -> <<"/", "b", "i", "n">>]

Envs ==
    { MkEnv(p, c, a) : p \in ProxyUrlInputs, c \in CommandInputs, a \in ArgsInputs }

\* os.environ.get(name, default)
os_environ_get(name, default) ==
    IF name \in DOMAIN env THEN Some(env[name]) ELSE default

-----------------------------------------------------------------------------
(* The script *)

Init ==
    /\ env \in Envs
    /\ pc = "L21"
    /\ proxy_url = None
    /\ cmd = None
    /\ raw_args = <<>>
    /\ args = <<>>
    /\ lex = LexInit
    /\ idx = 0
    /\ config = None
    /\ app = None
    /\ stderr = <<>>
    /\ exit_code = None
    /\ reads = {}
    /\ safe_ret = None

\* The process ends with status 1 after writing text to stderr.
Die(text) ==
    /\ stderr' = stderr \o text
    /\ exit_code' = Some(1)
    /\ pc' = "exited"

\* bad(msg), main.py:8-10
bad(msg) ==
    Die(ShimLine(msg))

\* main.py:21
GetProxyUrl ==
    /\ pc = "L21"
    /\ proxy_url' = os_environ_get("MCP_PROXY_URL", None)
    /\ reads' = reads \cup {"MCP_PROXY_URL"}
    /\ pc' = "L22"
    /\ UNCHANGED <<env, cmd, raw_args, args, lex, idx, config, app, stderr,
                   exit_code, safe_ret>>

\* CheckProxyUrl falling back to the subprocess path on an invalid URL.
CheckProxyUrl_FallBack ==
    /\ pc = "L22"
    /\ Truthy(proxy_url)
    /\ IF ~validators_url(proxy_url[1])
       THEN proxy_url' = None /\ pc' = "L22"
       ELSE proxy_url' = proxy_url /\ pc' = "L25"
    /\ UNCHANGED <<env, cmd, raw_args, args, lex, idx, config, app, stderr,
                   exit_code, reads, safe_ret>>

\* main.py:22-24
CheckProxyUrl ==
    /\ pc = "L22"
    /\ Truthy(proxy_url)
    /\ IF ~validators_url(proxy_url[1])
       THEN bad(MsgInvalidUrl)
       ELSE pc' = "L25" /\ UNCHANGED <<stderr, exit_code>>
    /\ UNCHANGED <<env, proxy_url, cmd, raw_args, args, lex, idx, config, app,
                   reads, safe_ret>>

\* main.py:25-32
BuildHttpConfig ==
    /\ pc = "L25"
    /\ config' = Some([url |-> proxy_url[1], transport |-> "http"])
    /\ pc' = "L59"
    /\ UNCHANGED <<env, proxy_url, cmd, raw_args, args, lex, idx, app, stderr,
                   exit_code, reads, safe_ret>>

\* main.py:33-36
GetCommand ==
    /\ pc = "L22"
    /\ ~Truthy(proxy_url)
    /\ cmd' = os_environ_get("MCP_COMMAND", None)
    /\ reads' = reads \cup {"MCP_COMMAND"}
    /\ IF ~Truthy(cmd')
       THEN bad(MsgMissing)
       ELSE pc' = "L37" /\ UNCHANGED <<stderr, exit_code>>
    /\ UNCHANGED <<env, proxy_url, raw_args, args, lex, idx, config, app,
                   safe_ret>>

\* main.py:37 and the test of main.py:38
GetArgs ==
    /\ pc = "L37"
    /\ raw_args' = os_environ_get("MCP_ARGS", Some(<<>>))[1]
    /\ reads' = reads \cup {"MCP_ARGS"}
    /\ args' = <<>>
    /\ lex' = LexInit
    /\ pc' = IF raw_args' # <<>> THEN "L38" ELSE "L40"
    /\ UNCHANGED <<env, proxy_url, cmd, idx, config, app, stderr, exit_code,
                   safe_ret>>

\* main.py:38: one pass through the loop of shlex's read_token.  A token
\* returned is appended to the list; a ValueError ends the process.
SplitArgs ==
    /\ pc = "L38"
    /\ LET r == ReadChar(lex, raw_args)
       IN  /\ lex' = r.lex
           /\ args' = IF r.emit # None THEN Append(args, r.emit[1]) ELSE args
           /\ IF r.error # None
              THEN Die(Traceback(r.error[1]))
              ELSE /\ pc' = IF r.done THEN "L40" ELSE "L38"
                   /\ UNCHANGED <<stderr, exit_code>>
    /\ UNCHANGED <<env, proxy_url, cmd, raw_args, idx, config, app, reads,
                   safe_ret>>

\* CheckCommand with the count of main.py:42 tested before the command.
CheckCommand_CountFirst ==
    /\ pc = "L40"
    /\ safe_ret' = Some([arg |-> cmd[1], ret |-> safe(cmd[1])])
    /\ IF Len(args) > MAX_ARGS
       THEN bad(MsgTooManyArgs)
       ELSE IF ~safe(cmd[1])
       THEN bad(MsgUnsafeCommand)
       ELSE pc' = "L42" /\ UNCHANGED <<stderr, exit_code>>
    /\ UNCHANGED <<env, proxy_url, cmd, raw_args, args, lex, idx, config, app,
                   reads>>

\* main.py:40-41
CheckCommand ==
    /\ pc = "L40"
    /\ safe_ret' = Some([arg |-> cmd[1], ret |-> safe(cmd[1])])
    /\ IF ~safe(cmd[1])
       THEN bad(MsgUnsafeCommand)
       ELSE pc' = "L42" /\ UNCHANGED <<stderr, exit_code>>
    /\ UNCHANGED <<env, proxy_url, cmd, raw_args, args, lex, idx, config, app,
                   reads>>

\* CheckArgCount letting one element more than MAX_ARGS pass.
CheckArgCount_OffByOne ==
    /\ pc = "L42"
    /\ IF Len(args) > MAX_ARGS + 1
       THEN bad(MsgTooManyArgs)
       ELSE pc' = "L44" /\ UNCHANGED <<stderr, exit_code>>
    /\ UNCHANGED <<env, proxy_url, cmd, raw_args, args, lex, idx, config, app,
                   reads, safe_ret>>

\* CheckArgCount rejecting MAX_ARGS elements.
CheckArgCount_AtLeast ==
    /\ pc = "L42"
    /\ IF Len(args) >= MAX_ARGS
       THEN bad(MsgTooManyArgs)
       ELSE pc' = "L44" /\ UNCHANGED <<stderr, exit_code>>
    /\ UNCHANGED <<env, proxy_url, cmd, raw_args, args, lex, idx, config, app,
                   reads, safe_ret>>

\* main.py:42-43
CheckArgCount ==
    /\ pc = "L42"
    /\ IF Len(args) > MAX_ARGS
       THEN bad(MsgTooManyArgs)
       ELSE pc' = "L44" /\ UNCHANGED <<stderr, exit_code>>
    /\ UNCHANGED <<env, proxy_url, cmd, raw_args, args, lex, idx, config, app,
                   reads, safe_ret>>

\* ForArg walking args from its last element to its first.
ForArg_Backwards ==
    /\ pc = "L44"
    /\ IF idx < Len(args)
       THEN LET a == args[Len(args) - idx]
            IN  /\ safe_ret' = Some([arg |-> a, ret |-> safe(a)])
                /\ idx' = idx + 1
                /\ IF ~safe(a)
                   THEN bad(MsgUnsafeArg(a))
                   ELSE pc' = "L44" /\ UNCHANGED <<stderr, exit_code>>
       ELSE /\ pc' = "L48"
            /\ UNCHANGED <<idx, stderr, exit_code, safe_ret>>
    /\ UNCHANGED <<env, proxy_url, cmd, raw_args, args, lex, config, app, reads>>

\* main.py:44-46: the loop takes the next element of args, or ends
ForArg ==
    /\ pc = "L44"
    /\ IF idx < Len(args)
       THEN LET a == args[idx + 1]
            IN  /\ safe_ret' = Some([arg |-> a, ret |-> safe(a)])
                /\ idx' = idx + 1
                /\ IF ~safe(a)
                   THEN bad(MsgUnsafeArg(a))
                   ELSE pc' = "L44" /\ UNCHANGED <<stderr, exit_code>>
       ELSE /\ pc' = "L48"
            /\ UNCHANGED <<idx, stderr, exit_code, safe_ret>>
    /\ UNCHANGED <<env, proxy_url, cmd, raw_args, args, lex, config, app, reads>>

\* BuildStdioConfig passing the environment without the shim's own entries.
BuildStdioConfig_FilteredEnv ==
    /\ pc = "L48"
    /\ config' = Some([type |-> "stdio", command |-> cmd[1], args |-> args,
                       env |-> [k \in DOMAIN env \ {"MCP_COMMAND", "MCP_ARGS"}
                                  |-> env[k]]])
    /\ reads' = reads \cup DOMAIN env
    /\ pc' = "L59"
    /\ UNCHANGED <<env, proxy_url, cmd, raw_args, args, lex, idx, app, stderr,
                   exit_code, safe_ret>>

\* main.py:48-57
BuildStdioConfig ==
    /\ pc = "L48"
    /\ config' = Some([type |-> "stdio", command |-> cmd[1], args |-> args,
                       env |-> env])
    /\ reads' = reads \cup DOMAIN env
    /\ pc' = "L59"
    /\ UNCHANGED <<env, proxy_url, cmd, raw_args, args, lex, idx, app, stderr,
                   exit_code, safe_ret>>

\* main.py:59: the proxy runtime is built from config
AsProxy ==
    /\ pc = "L59"
    /\ app' = config
    /\ pc' = "L61"
    /\ UNCHANGED <<env, proxy_url, cmd, raw_args, args, lex, idx, config,
                   stderr, exit_code, reads, safe_ret>>

\* main.py:61-64: the proxy runtime serves
Run ==
    /\ pc = "L61"
    /\ pc' = "serving"
    /\ UNCHANGED <<env, proxy_url, cmd, raw_args, args, lex, idx, config, app,
                   stderr, exit_code, reads, safe_ret>>

Next ==
    \/ GetProxyUrl
    \/ CheckProxyUrl
    \/ BuildHttpConfig
    \/ GetCommand
    \/ GetArgs
    \/ SplitArgs
    \/ CheckCommand
    \/ CheckArgCount
    \/ ForArg
    \/ BuildStdioConfig
    \/ AsProxy
    \/ Run

Spec ==
    Init /\ [][Next]_vars

-----------------------------------------------------------------------------
(* safe() applied to strings of any content, NUL included *)

TokenLens ==
    (0..(MaxWords + 1)) \cup LenRange

TokenInputs ==
    { Rep("a", n) : n \in TokenLens }
    \cup UNION { { [Rep("a", n) EXCEPT ![p] = c] :
                     p \in {1, n}, c \in {NUL, LF, CR, TAB, " "} } :
                   n \in TokenLens \ {0} }

SafeInit ==
    /\ env = MkEnv(None, None, None)
    /\ pc = "safe"
    /\ proxy_url = None
    /\ cmd \in { Some(t) : t \in TokenInputs }
    /\ raw_args = <<>>
    /\ args = <<>>
    /\ lex = LexInit
    /\ idx = 0
    /\ config = None
    /\ app = None
    /\ stderr = <<>>
    /\ exit_code = None
    /\ reads = {}
    /\ safe_ret = None

ApplySafe ==
    /\ pc = "safe"
    /\ safe_ret' = Some([arg |-> cmd[1], ret |-> safe(cmd[1])])
    /\ pc' = "safe_done"
    /\ UNCHANGED <<env, proxy_url, cmd, raw_args, args, lex, idx, config, app,
                   stderr, exit_code, reads>>

SafeNext ==
    ApplySafe

SafeSpec ==
    SafeInit /\ [][SafeNext]_vars

-----------------------------------------------------------------------------
(* Vocabulary of the properties.  The three inputs are read off env; the   *)
(* outcomes are read off the final state.                                  *)

IsSet(name) ==
    name \in DOMAIN env

UnsetOrEmpty(name) ==
    ~IsSet(name) \/ Len(env[name]) = 0

\* The SafeToken invariant as the specification words it.
SafeToken(s) ==
    /\ Len(s) \in 1..512
    /\ { s[i] : i \in 1..Len(s) } \cap {NUL, LF, CR} = {}

\* A well-formed absolute URL whose scheme is http or https.
IsHttpUrl(u) ==
    WellFormedUrl(u, { <<"h", "t", "t", "p">>, <<"h", "t", "t", "p", "s">> })

IsRemoteHTTP(c) ==
    c # None /\ DOMAIN c[1] = {"url", "transport"}

IsLocalProcess(c) ==
    c # None /\ DOMAIN c[1] = {"type", "command", "args", "env"}

\* The script has ended: the process is gone or the proxy runtime serves.
Ended ==
    pc \in {"exited", "serving"}

\* The process ended with status 1 and this one diagnostic on stderr.
FailedWith(msg) ==
    pc = "exited" /\ exit_code = <<1>> /\ stderr = <<"[shim] ">> \o msg \o <<LF>>

InvalidRemoteURL ==
    FailedWith(MsgInvalidUrl)

MissingBackendConfig ==
    FailedWith(MsgMissing)

UnsafeCommand ==
    FailedWith(MsgUnsafeCommand)

TooManyArgs ==
    FailedWith(MsgTooManyArgs)

UnsafeArg(a) ==
    FailedWith(MsgUnsafeArg(a))

\* MCP_ARGS was tokenized without error; args is the tokenized sequence.
Tokenized ==
    /\ "MCP_ARGS" \in reads
    /\ pc # "L38"
    /\ raw_args = <<>> \/ lex.state = "None"

UnsafeIndexes ==
    { i \in 1..Len(args) : ~SafeToken(args[i]) }

FirstUnsafe ==
    CHOOSE i \in UnsafeIndexes : \A j \in UnsafeIndexes : i <= j

-----------------------------------------------------------------------------
\* C1: every descriptor built, and so every descriptor the proxy runtime is
\* launched with, is fully validated: a LocalProcess descriptor has a
\* SafeToken command, at most 64 args and only SafeToken args (a RemoteHTTP
\* one the URL the validator accepted); after a failure there is no
\* descriptor and the runtime was never launched.
C1_OnlyValidatedDescriptors ==
    /\ IsLocalProcess(config) =>
          /\ SafeToken(config[1].command)
          /\ Len(config[1].args) <= 64
          /\ \A i \in 1..Len(config[1].args) : SafeToken(config[1].args[i])
    /\ IsRemoteHTTP(config) => validators_url(config[1].url)
    /\ app # None => app = config /\ (IsLocalProcess(app) \/ IsRemoteHTTP(app))
    /\ pc = "exited" => config = None /\ app = None
    /\ pc \in {"L61", "serving"} => app # None

C1_Witness ==
    /\ pc = "serving"
    /\ IsLocalProcess(app)
    /\ Len(app[1].args) = 64

\* C2 (as claimed): every failure ends the process with exit code 1 after
\* exactly one line "[shim] <message>" on stderr, malformed quoting in
\* MCP_ARGS included.
C2_OneShimLinePerFailure ==
    pc = "exited" =>
        /\ exit_code = <<1>>
        /\ NumLines(stderr) = 1
        /\ stderr[1] = "[shim] "
        /\ stderr[Len(stderr)] = LF

\* C3: a non-empty MCP_PROXY_URL is a one-way branch: the outcome is
\* RemoteHTTP or InvalidRemoteURL, MCP_COMMAND and MCP_ARGS are never read,
\* and no LocalProcess descriptor appears; an unset or empty MCP_PROXY_URL
\* never leads to the remote variant.
C3_HardBranch ==
    /\ ~UnsetOrEmpty("MCP_PROXY_URL") =>
          /\ reads \subseteq {"MCP_PROXY_URL"}
          /\ cmd = None /\ args = <<>> /\ safe_ret = None
          /\ ~IsLocalProcess(config)
          /\ pc = "exited" => InvalidRemoteURL
          /\ pc = "serving" => IsRemoteHTTP(app)
    /\ UnsetOrEmpty("MCP_PROXY_URL") =>
          /\ ~IsRemoteHTTP(config)
          /\ ~InvalidRemoteURL

C3_Witness ==
    /\ InvalidRemoteURL
    /\ IsSet("MCP_COMMAND") /\ SafeToken(env["MCP_COMMAND"])
    /\ IsSet("MCP_ARGS")

\* C4 (as claimed): with MCP_PROXY_URL non-empty, resolution yields
\* RemoteHTTP with the URL unchanged iff the value is a well-formed absolute
\* URL whose scheme is http or https, and fails with InvalidRemoteURL for
\* every other value.
C4_HttpOrHttpsOnly ==
    (~UnsetOrEmpty("MCP_PROXY_URL") /\ Ended) =>
        IF IsHttpUrl(env["MCP_PROXY_URL"])
        THEN /\ pc = "serving"
             /\ app = <<[url |-> env["MCP_PROXY_URL"], transport |-> "http"]>>
        ELSE InvalidRemoteURL

\* C5 (as claimed): with MCP_PROXY_URL unset or empty and a non-empty
\* MCP_COMMAND that fails SafeToken, resolution fails with UnsafeCommand for
\* every value of MCP_ARGS, malformed quoting included.
C5_UnsafeCommandWhateverArgs ==
    ( /\ UnsetOrEmpty("MCP_PROXY_URL")
      /\ ~UnsetOrEmpty("MCP_COMMAND")
      /\ ~SafeToken(env["MCP_COMMAND"])
      /\ Ended ) => UnsafeCommand

\* C5 (amended): with MCP_PROXY_URL unset or empty and a non-empty
\* MCP_COMMAND that fails SafeToken, resolution fails with UnsafeCommand for
\* every MCP_ARGS that tokenizes without error, more than 64 tokens
\* included; no descriptor is built.
C5_UnsafeCommandOnceTokenized ==
    ( /\ UnsetOrEmpty("MCP_PROXY_URL")
      /\ ~UnsetOrEmpty("MCP_COMMAND")
      /\ ~SafeToken(env["MCP_COMMAND"]) ) =>
        /\ config = None
        /\ (Ended /\ Tokenized) => UnsafeCommand

C5_Witness ==
    /\ UnsafeCommand
    /\ Contains(env["MCP_COMMAND"], LF)
    /\ Tokenized
    /\ Len(args) > 64

\* C6 (as claimed): with MCP_PROXY_URL unset or empty, any non-empty
\* MCP_COMMAND, safe or not, and MCP_ARGS tokenizing to 65 or more
\* elements, resolution fails with TooManyArgs; 64 elements are never
\* rejected as too many.
C6_TooManyArgsWhateverCommand ==
    /\ ( /\ UnsetOrEmpty("MCP_PROXY_URL")
         /\ ~UnsetOrEmpty("MCP_COMMAND")
         /\ Tokenized
         /\ Len(args) >= 65
         /\ Ended ) => TooManyArgs
    /\ (Tokenized /\ Len(args) = 64) => ~TooManyArgs

\* C6 (amended): with MCP_PROXY_URL unset or empty, MCP_COMMAND a safe
\* token and MCP_ARGS tokenizing to 65 or more elements, resolution fails
\* with TooManyArgs; the command is checked before the count, so with an
\* unsafe non-empty MCP_COMMAND it fails with UnsafeCommand instead; 64
\* elements are never rejected as too many.
C6_TooManyArgsForSafeCommand ==
    /\ ( /\ UnsetOrEmpty("MCP_PROXY_URL")
         /\ ~UnsetOrEmpty("MCP_COMMAND")
         /\ Tokenized
         /\ Len(args) >= 65
         /\ Ended ) =>
            IF SafeToken(env["MCP_COMMAND"]) THEN TooManyArgs ELSE UnsafeCommand
    /\ (Tokenized /\ Len(args) = 64) => ~TooManyArgs

C6_Witness ==
    /\ TooManyArgs
    /\ Len(args) = 65
    /\ SafeToken(env["MCP_COMMAND"])

\* C7: safe returns, for every string, what the SafeToken definition gives:
\* true exactly when the length is within 1..512 and the string holds no
\* NUL, LF or CR.
C7_SafeIsSafeToken ==
    safe_ret # None => (safe_ret[1].ret <=> SafeToken(safe_ret[1].arg))

C7_Witness ==
    /\ safe_ret # None
    /\ Len(safe_ret[1].arg) = 512
    /\ safe_ret[1].ret

\* C8: with MCP_PROXY_URL unset or empty, MCP_COMMAND a safe token and
\* MCP_ARGS tokenizing without error to at most 64 safe tokens (none when
\* MCP_ARGS is unset or empty), resolution succeeds with a LocalProcess
\* descriptor holding the command unchanged, the tokens in their order and
\* the whole environment.
C8_LocalProcessDescriptor ==
    ( /\ UnsetOrEmpty("MCP_PROXY_URL")
      /\ ~UnsetOrEmpty("MCP_COMMAND")
      /\ SafeToken(env["MCP_COMMAND"])
      /\ Tokenized
      /\ Len(args) <= 64
      /\ UnsafeIndexes = {} ) =>
        /\ pc # "exited"
        /\ UnsetOrEmpty("MCP_ARGS") => args = <<>>
        /\ pc \in {"L59", "L61", "serving"} =>
              config = <<[type |-> "stdio", command |-> env["MCP_COMMAND"],
                          args |-> args, env |-> env]>>
        /\ pc = "serving" => app = config

C8_Witness ==
    /\ pc = "serving"
    /\ IsLocalProcess(app)
    /\ app[1].args = << <<"-", "m">>, <<"a", " ", "b">> >>
    /\ DOMAIN app[1].env = {"PATH", "MCP_PROXY_URL", "MCP_COMMAND", "MCP_ARGS"}

\* C9: with MCP_PROXY_URL unset or empty and MCP_COMMAND unset or empty,
\* resolution fails with MissingBackendConfig whatever MCP_ARGS is: the URL
\* is not validated, MCP_ARGS is not read, the command is not checked.
C9_MissingBackendConfig ==
    (UnsetOrEmpty("MCP_PROXY_URL") /\ UnsetOrEmpty("MCP_COMMAND")) =>
        /\ pc \in {"L21", "L22", "exited"}
        /\ pc = "exited" => MissingBackendConfig
        /\ "MCP_ARGS" \notin reads
        /\ safe_ret = None

C9_Witness ==
    /\ MissingBackendConfig
    /\ IsSet("MCP_PROXY_URL") /\ IsSet("MCP_COMMAND")
    /\ IsSet("MCP_ARGS") /\ env["MCP_ARGS"] = <<"'", "a">>

\* C10: with a safe command and at most 64 tokens of which one or more
\* fail SafeToken, the tokens are checked in order and resolution fails
\* with UnsafeArg naming the first offending token.
C10_FirstUnsafeArgReported ==
    /\ ( /\ UnsetOrEmpty("MCP_PROXY_URL")
         /\ ~UnsetOrEmpty("MCP_COMMAND")
         /\ SafeToken(env["MCP_COMMAND"])
         /\ Tokenized
         /\ Len(args) <= 64
         /\ UnsafeIndexes # {} ) =>
            /\ config = None
            /\ idx <= FirstUnsafe
            /\ Ended => (UnsafeArg(args[FirstUnsafe]) /\ idx = FirstUnsafe)
    /\ pc = "L44" => \A i \in 1..idx : SafeToken(args[i])

C10_Witness ==
    /\ UnsafeArg(<<>>)
    /\ args = << <<>>, <<"a", LF, "b">> >>

====
